---- MODULE Spec2Model ----
(***************************************************************************)
(* A model of dump.py: the controlling thread (main, get_usb_iphone,       *)
(* open_target_app, start_dump, generate_ipa) and the notification         *)
(* delivery context that runs on_message.  Paths are sequences of          *)
(* one-character strings so that basename and extract_path are computed.   *)
(***************************************************************************)
EXTENDS Integers, Sequences, FiniteSets, TLC

\* ------------------------------------------------------------------ bounds
MaxMsgs == 3          \* notifications the agent emits in one run
MaxApps == 2          \* length of an application enumeration
MaxDevices == 2       \* length of a device enumeration

\* ------------------------------------------------------- values and inputs
None == "None"
\* the null values of record-valued names
NoDevice == [id |-> 0, type |-> "none"]
NoSession == [pid |-> 0, attached |-> FALSE]
NoMessage == [type |-> "none"]

\* A device record: an identifier and a transport kind.
DeviceKinds == {"usb", "tether", "local"}
Devices == [id : 1..MaxDevices, type : DeviceKinds]

RECURSIVE SeqsUpTo(_, _)
SeqsUpTo(S, n) ==
    IF n = 0 THEN {<<>>}
    ELSE LET shorter == SeqsUpTo(S, n - 1)
         IN  shorter \cup {Append(s, x) : s \in {t \in shorter : Len(t) = n - 1}, x \in S}

\* an enumeration lists each attached device once
DeviceLists ==
    {l \in SeqsUpTo(Devices, MaxDevices) :
        \A i, j \in 1..Len(l) : i # j => l[i].id # l[j].id}

\* frida.__version__ major numbers on either side of the 12 threshold
FridaMajors == {11, 12}

\* Application descriptors: pid 0 means not running.
Text == {"A", "B"}
Apps == [pid : {0, 7}, name : Text, identifier : Text]
AppLists == SeqsUpTo(Apps, MaxApps)
Target == "A"
\* pid before any descriptor matched: the empty string of line 144, falsy like 0
NoPid == -1
SpawnedPid == 9

\* ------------------------------------------------------------------ paths
Min(S) == CHOOSE x \in S : \A y \in S : x <= y
Max(S) == CHOOSE x \in S : \A y \in S : x >= y

\* str.find: the lowest 0-based index at which sub occurs in s, or -1
find(s, sub) ==
    LET hits == {i \in 0..(Len(s) - Len(sub)) : SubSeq(s, i + 1, i + Len(sub)) = sub}
    IN  IF hits = {} THEN -1 ELSE Min(hits)

\* str.rfind for a single character
rfind(s, c) ==
    LET hits == {i \in 0..(Len(s) - 1) : s[i + 1] = c}
    IN  IF hits = {} THEN -1 ELSE Max(hits)

\* s[k:] for k >= 0
SliceFrom(s, k) == SubSeq(s, k + 1, Len(s))

\* os.path.basename
basename(p) == SliceFrom(p, rfind(p, "/") + 1)

AppMarker == <<".", "a", "p", "p", "/">>

extract_path(origin_path) ==
    LET index == find(origin_path, AppMarker)
    IN  SliceFrom(origin_path, index + 5)

\* os.path.join of relative components
join(a, b) == IF a = <<>> THEN b ELSE a \o <<"/">> \o b

\* -------------------------------------------------- agent notifications
BundlePath == <<"/", "F", ".", "a", "p", "p">>
Dump1 == <<"/", "d", "/", "F">>
Path1 == <<"/", "F", ".", "a", "p", "p", "/", "F">>
Dump2 == <<"/", "d", "/", "L">>
Path2 == <<"/", "F", ".", "a", "p", "p", "/", "x", "/", "L">>
AppKey == <<"a", "p", "p">>

MsgDump1 == [payload |-> [dump |-> Dump1, path |-> Path1]]
MsgDump2 == [payload |-> [dump |-> Dump2, path |-> Path2]]
MsgApp == [payload |-> [app |-> BundlePath]]
MsgDone == [payload |-> [done |-> "ok"]]
MsgError == [type |-> "error"]
Messages == {MsgDump1, MsgDump2, MsgApp, MsgDone, MsgError}

Has(m, k) == k \in DOMAIN m

\* ------------------------------------------------ FILE_DICT (insertion order)
DictHas(d, k) == \E i \in 1..Len(d) : d[i].key = k
DictGet(d, k) == d[CHOOSE i \in 1..Len(d) : d[i].key = k].value
DictSet(d, k, v) ==
    IF DictHas(d, k)
    THEN [i \in 1..Len(d) |-> IF d[i].key = k THEN [key |-> k, value |-> v] ELSE d[i]]
    ELSE Append(d, [key |-> k, value |-> v])
DictKeys(d) == {d[i].key : i \in 1..Len(d)}

\* ------------------------------------------------------------------ state
VARIABLES
    pc,                 \* position of the controlling thread
    FINISHED,           \* the threading.Event
    setters,            \* code paths that have called FINISHED.set()
    FILE_DICT,          \* sequence of [key, value], in insertion order
    payload_exists,     \* PAYLOAD_PATH exists on disk
    payload_isdir,      \* PAYLOAD_PATH is a directory
    staging,            \* relative paths present under PAYLOAD_PATH
    device_manager,     \* what enumerate_devices() returns now
    device_type,        \* local of get_usb_iphone
    device,             \* resolved device
    apps, idx,          \* enumeration and loop position in open_target_app
    pid, session, display_name, bundle_identifier,
    calls,              \* spawn / attach / resume calls made on the device
    caught,             \* the call whose exception line 157 caught
    ssh,                \* "none", "connected", "failed", "closed"
    ipa_name,           \* argument of start_dump
    script,             \* "none", "created", "loaded"
    callback,           \* on_message is registered for the script's messages
    posted,             \* number of script.post('dump') calls
    sent,               \* notifications the agent has sent, in order
    inflight,           \* notifications emitted and not yet delivered
    dpc,                \* position of the delivery context inside on_message
    message,            \* notification being handled
    pulls,              \* scp_transfer calls made: [src, recursive, outcome]
    handled,            \* notifications whose handler has returned
    app_name, it, size, \* locals of generate_ipa and its dict iterator
    error,              \* exception caught by generate_ipa
    ipa,                \* archive written by zip
    detached,           \* session.detach() was called
    device_path,        \* argument of a call of extract_path
    relative,           \* the value the call returned
    again,              \* the value extract_path returned for `relative`
    xpc                 \* "idle", "call", "returned", "again"

vars == <<pc, FINISHED, setters, FILE_DICT, payload_exists, payload_isdir, staging,
          device_manager,
          device_type, device, apps, idx, pid, session, display_name,
          bundle_identifier, calls, caught, ssh, ipa_name, script, callback, posted, sent,
          inflight, dpc, message, pulls, handled, app_name, it, size, error, ipa,
          detached, device_path, relative, again, xpc>>

resolver == <<device_manager, device_type, device>>
manager == <<apps, idx, pid, session, display_name, bundle_identifier, calls,
             caught>>
bridge == <<script, callback, posted>>
delivery == <<sent, inflight, dpc, message, pulls, handled>>
assembler == <<app_name, it, size, error, ipa>>
disk == <<payload_exists, payload_isdir, staging>>
signal == <<FINISHED, setters>>
derivation == <<device_path, relative, again, xpc>>

OldFile == <<"o">>

\* the program before main runs
Program ==
    /\ pc = "main"
    /\ FINISHED = FALSE
    /\ setters = {}
    /\ FILE_DICT = <<>>
    /\ payload_exists \in BOOLEAN
    /\ payload_isdir \in {b \in BOOLEAN : b => payload_exists}
    /\ staging \in (IF payload_isdir THEN {{}, {OldFile}} ELSE {{}})
    /\ device_manager \in DeviceLists
    /\ device_type = None
    /\ device = NoDevice
    /\ apps = <<>>
    /\ idx = 0
    /\ pid = NoPid
    /\ session = NoSession
    /\ display_name = ""
    /\ bundle_identifier = ""
    /\ calls = <<>>
    /\ caught = None
    /\ ssh = "none"
    /\ ipa_name = None
    /\ script = "none"
    /\ callback = FALSE
    /\ posted = 0
    /\ sent = <<>>
    /\ inflight = <<>>
    /\ dpc = "idle"
    /\ message = NoMessage
    /\ pulls = <<>>
    /\ handled = 0
    /\ app_name = <<>>
    /\ it = 0
    /\ size = 0
    /\ error = None
    /\ ipa = None
    /\ detached = FALSE

Init ==
    /\ Program
    /\ device_path = <<>>
    /\ relative = <<>>
    /\ again = <<>>
    /\ xpc = "idle"

\* a setter that flips the flag instead of setting it
Set_toggles(who) ==
    /\ FINISHED' = ~FINISHED
    /\ setters' = setters \cup {who}

\* threading.Event.set()
Set(who) ==
    /\ FINISHED' = TRUE
    /\ setters' = setters \cup {who}

\* ------------------------------------------------------- get_usb_iphone
\* line 40
required_type(major) == IF major >= 12 THEN "usb" ELSE "tether"

\* line 43
matching(devs, kind) == SelectSeq(devs, LAMBDA dev : dev.type = kind)

\* a resolver that takes the last match instead of the first
last(devices) == devices[Len(devices)]

\* line 48
first(devices) == devices[1]

get_usb_iphone ==
    /\ pc = "main"
    /\ \E major \in FridaMajors : device_type' = required_type(major)
    /\ pc' = "get_usb_iphone"
    /\ UNCHANGED <<signal, FILE_DICT, disk, device_manager, device, manager, ssh,
                   ipa_name, bridge, delivery, assembler, detached>>
    /\ UNCHANGED derivation

\* one pass of the while loop, lines 42-50
get_usb_iphone_poll ==
    /\ pc = "get_usb_iphone"
    /\ LET devices == matching(device_manager, device_type)
       IN  IF devices = <<>>
           THEN /\ pc' = "get_usb_iphone_wait"
                /\ UNCHANGED resolver
           ELSE /\ device' = first(devices)
                /\ UNCHANGED <<device_manager, device_type>>
                /\ pc' = "ssh_connect"
    /\ UNCHANGED <<signal, FILE_DICT, disk, manager, ssh, ipa_name, bridge,
                   delivery, assembler, detached>>
    /\ UNCHANGED derivation

\* a wait that returns without the event being set
FINISHED_wait_returns_early ==
    /\ pc \in {"get_usb_iphone_wait", "start_dump_wait"}
    /\ pc' = IF pc = "get_usb_iphone_wait" THEN "get_usb_iphone" ELSE "generate_ipa"
    /\ UNCHANGED <<signal, FILE_DICT, disk, resolver, manager, ssh, ipa_name,
                   bridge, delivery, assembler, detached>>
    /\ UNCHANGED derivation

\* FINISHED.wait() returns once the event is set: line 46 and line 168
FINISHED_wait ==
    /\ pc \in {"get_usb_iphone_wait", "start_dump_wait"}
    /\ FINISHED
    /\ pc' = IF pc = "get_usb_iphone_wait" THEN "get_usb_iphone" ELSE "generate_ipa"
    /\ UNCHANGED <<signal, FILE_DICT, disk, resolver, manager, ssh, ipa_name,
                   bridge, delivery, assembler, detached>>
    /\ UNCHANGED derivation

\* a device is plugged or unplugged while the resolver runs
devices_changed ==
    /\ pc \in {"main", "get_usb_iphone", "get_usb_iphone_wait"}
    /\ \E l \in DeviceLists : l # device_manager /\ device_manager' = l
    /\ UNCHANGED <<pc, signal, FILE_DICT, disk, device_type, device, manager, ssh,
                   ipa_name, bridge, delivery, assembler, detached>>
    /\ UNCHANGED derivation

\* ------------------------------------------------------------------- main
\* lines 244-252: any exception is caught by the handler of line 259; the
\* device manager and the locals of get_usb_iphone are not read again
ssh_connect ==
    /\ pc = "ssh_connect"
    /\ \/ /\ ssh' = "connected"
          /\ pc' = "create_dir"
       \/ /\ ssh' = "failed"
          /\ pc' = "teardown"
    /\ device_manager' = <<>>
    /\ device_type' = None
    /\ UNCHANGED <<signal, FILE_DICT, disk, device, manager, ipa_name, bridge,
                   delivery, assembler, detached>>
    /\ UNCHANGED derivation

\* line 213: shutil.rmtree removes a directory and raises on anything else
can_rmtree(exists, isdir) == exists /\ isdir

\* lines 209-217: an rmtree failure leaves the function and reaches line 259;
\* an os.error of makedirs is caught at line 216 and the function returns
create_dir ==
    /\ pc = "create_dir"
    /\ \/ /\ payload_exists => can_rmtree(payload_exists, payload_isdir)
          /\ \/ /\ payload_exists' = TRUE
                /\ payload_isdir' = TRUE
             \/ /\ payload_exists' = FALSE
                /\ payload_isdir' = FALSE
          /\ staging' = {}
          /\ pc' = "open_target_app"
       \/ /\ payload_exists
          /\ UNCHANGED disk
          /\ pc' = "teardown"
    /\ UNCHANGED <<signal, FILE_DICT, resolver, manager, ssh, ipa_name, bridge,
                   delivery, assembler, detached>>
    /\ UNCHANGED derivation

\* ------------------------------------------------------ open_target_app
\* lines 185-190 and 144: sys.exit raises SystemExit, which no handler of
\* main catches, so the process ends without reaching line 263
get_applications ==
    /\ pc = "open_target_app"
    /\ \/ /\ \E l \in AppLists : apps' = l
          /\ idx' = 1
          /\ pid' = NoPid
          /\ session' = NoSession
          /\ display_name' = ""
          /\ bundle_identifier' = ""
          /\ pc' = "scan"
          /\ UNCHANGED <<calls, caught>>
       \/ /\ pc' = "exit"
          /\ UNCHANGED manager
    /\ UNCHANGED <<signal, FILE_DICT, disk, resolver, ssh, ipa_name, bridge,
                   delivery, assembler, detached>>
    /\ UNCHANGED derivation

\* line 147
matches(app_id, app) == app_id = app.identifier \/ app_id = app.name

\* a scan that keeps the first match
scan_step_keeps_first(app_id, app, cur) ==
    IF matches(app_id, app) /\ cur.identifier = ""
    THEN [pid |-> app.pid, name |-> app.name, identifier |-> app.identifier]
    ELSE cur

\* lines 147-148: the three locals after one iteration of the loop
scan_step(app_id, app, cur) ==
    IF matches(app_id, app)
    THEN [pid |-> app.pid, name |-> app.name, identifier |-> app.identifier]
    ELSE cur

\* one iteration of the for loop of line 146
scan ==
    /\ pc = "scan"
    /\ IF idx <= Len(apps)
       THEN LET new == scan_step(Target, apps[idx],
                          [pid |-> pid, name |-> display_name,
                           identifier |-> bundle_identifier])
            IN  /\ pid' = new.pid
                /\ display_name' = new.name
                /\ bundle_identifier' = new.identifier
                /\ idx' = idx + 1
                /\ pc' = pc
       ELSE /\ pc' = "try"
            /\ UNCHANGED <<pid, display_name, bundle_identifier, idx>>
    /\ UNCHANGED <<signal, FILE_DICT, disk, resolver, apps, session, calls, caught,
                   ssh, ipa_name, bridge, delivery, assembler, detached>>
    /\ UNCHANGED derivation

\* truth value of pid in `if not pid`: '' and 0 are falsy
not_pid(p) == p = NoPid \/ p = 0

\* line 151: the branch taken inside the try block
try_branch(p) == IF not_pid(p) THEN "spawn" ELSE "attach"

try ==
    /\ pc = "try"
    /\ pc' = try_branch(pid)
    /\ UNCHANGED <<signal, FILE_DICT, disk, resolver, manager, ssh, ipa_name,
                   bridge, delivery, assembler, detached>>
    /\ UNCHANGED derivation

\* line 152; an exception lands in the handler of line 157 and then line 160;
\* no application has the empty bundle identifier
spawn ==
    /\ pc = "spawn"
    /\ calls' = Append(calls, "spawn")
    /\ \/ /\ bundle_identifier # ""
          /\ pid' = SpawnedPid
          /\ pc' = "attach_spawned"
          /\ UNCHANGED caught
       \/ /\ caught' = "spawn"
          /\ pc' = "return"
          /\ UNCHANGED pid
    /\ UNCHANGED <<signal, FILE_DICT, disk, resolver, apps, idx, session,
                   display_name, bundle_identifier, ssh, ipa_name, bridge, delivery,
                   assembler, detached>>
    /\ UNCHANGED derivation

\* an attach that is always followed by resume
after_attach_always_resumes(at) == "resume"

\* what follows a successful attach: line 154 after line 153, line 160 after 156
after_attach(at) == IF at = "attach_spawned" THEN "resume" ELSE "return"

\* lines 153 and 156
attach ==
    /\ pc \in {"attach_spawned", "attach"}
    /\ calls' = Append(calls, "attach")
    /\ \/ /\ session' = [pid |-> pid, attached |-> TRUE]
          /\ pc' = after_attach(pc)
          /\ UNCHANGED caught
       \/ /\ caught' = "attach"
          /\ pc' = "return"
          /\ UNCHANGED session
    /\ UNCHANGED <<signal, FILE_DICT, disk, resolver, apps, idx, pid, display_name,
                   bundle_identifier, ssh, ipa_name, bridge, delivery, assembler,
                   detached>>
    /\ UNCHANGED derivation

\* line 154: returning or raising, control reaches line 160 with session kept
resume ==
    /\ pc = "resume"
    /\ calls' = Append(calls, "resume")
    /\ \/ UNCHANGED caught
       \/ caught' = "resume"
    /\ pc' = "return"
    /\ UNCHANGED <<signal, FILE_DICT, disk, resolver, apps, idx, pid, session,
                   display_name, bundle_identifier, ssh, ipa_name, bridge, delivery,
                   assembler, detached>>
    /\ UNCHANGED derivation

\* a caller that does not test the session
proceed_unchecked(s) == "start_dump"

\* line 256
proceed(s) == IF s # NoSession THEN "start_dump" ELSE "teardown"

\* lines 255-258: the result is unpacked and the locals of open_target_app and
\* the names main does not read again are dropped
open_target_app_return ==
    /\ pc = "return"
    /\ pc' = proceed(session)
    /\ ipa_name' = IF session # NoSession THEN display_name ELSE None
    /\ apps' = <<>>
    /\ idx' = 0
    /\ pid' = NoPid
    /\ display_name' = ""
    /\ bundle_identifier' = ""
    /\ device' = NoDevice
    /\ caught' = None
    /\ UNCHANGED <<signal, FILE_DICT, disk, device_manager, device_type, session,
                   calls, ssh, bridge, delivery, assembler, detached>>
    /\ UNCHANGED derivation

\* ------------------------------------------- start_dump and load_js_file
\* a loader that starts the agent before it registers the callback
load_js_file_loads_first(stmt) ==
    CASE stmt = "create_script" -> "script_load"
      [] stmt = "script_load" -> "script_on"
      [] stmt = "script_on" -> "script_post"

\* lines 179-182 and 166-167: the statement that follows stmt
load_js_file(stmt) ==
    CASE stmt = "create_script" -> "script_on"
      [] stmt = "script_on" -> "script_load"
      [] stmt = "script_load" -> "script_post"

\* lines 176-179: reading the file or create_script may raise
create_script ==
    /\ pc = "start_dump"
    /\ \/ /\ script' = "created"
          /\ pc' = load_js_file("create_script")
       \/ /\ pc' = "teardown"
          /\ UNCHANGED script
    /\ UNCHANGED <<signal, FILE_DICT, disk, resolver, manager, ssh, ipa_name,
                   callback, posted, delivery, assembler, detached>>
    /\ UNCHANGED derivation

\* line 180
script_on ==
    /\ pc = "script_on"
    /\ callback' = TRUE
    /\ pc' = load_js_file("script_on")
    /\ UNCHANGED <<signal, FILE_DICT, disk, resolver, manager, ssh, ipa_name,
                   script, posted, delivery, assembler, detached>>
    /\ UNCHANGED derivation

\* line 181
script_load ==
    /\ pc = "script_load"
    /\ \/ /\ script' = "loaded"
          /\ pc' = load_js_file("script_load")
       \/ /\ pc' = "teardown"
          /\ UNCHANGED script
    /\ UNCHANGED <<signal, FILE_DICT, disk, resolver, manager, ssh, ipa_name,
                   callback, posted, delivery, assembler, detached>>
    /\ UNCHANGED derivation

\* line 167
script_post ==
    /\ pc = "script_post"
    /\ \/ /\ posted' = posted + 1
          /\ pc' = "start_dump_wait"
       \/ /\ pc' = "teardown"
          /\ UNCHANGED posted
    /\ UNCHANGED <<signal, FILE_DICT, disk, resolver, manager, ssh, ipa_name,
                   script, callback, delivery, assembler, detached>>
    /\ UNCHANGED derivation

\* --------------------------------------------- agent and delivery context
\* the process has not ended and the session is still attached
alive == pc # "exit" /\ ~detached

\* the agent emits a notification after it has received the dump command
agent_send ==
    /\ alive
    /\ posted > 0
    /\ Len(sent) < MaxMsgs
    /\ \E m \in Messages :
         /\ inflight' = Append(inflight, m)
         /\ sent' = Append(sent, m)
    /\ UNCHANGED <<pc, signal, FILE_DICT, disk, resolver, manager, ssh, ipa_name,
                   bridge, dpc, message, pulls, handled, assembler, detached>>
    /\ UNCHANGED derivation

\* a handler that registers a dumped file instead of pulling it
next_stage_registers_first(m, after) ==
    IF ~Has(m, "payload") THEN "idle"
    ELSE IF after \in {"start"} /\ Has(m.payload, "dump") THEN "dump_set"
    ELSE IF after \in {"start", "dump"} /\ Has(m.payload, "app") THEN "app_scp"
    ELSE IF after \in {"start", "dump", "app"} /\ Has(m.payload, "done") THEN "done"
    ELSE "idle"

\* lines 87-97: the next statement of on_message to run for message m once
\* the statements up to `after` have run
next_stage(m, after) ==
    IF ~Has(m, "payload") THEN "idle"
    ELSE IF after \in {"start"} /\ Has(m.payload, "dump") THEN "dump_scp"
    ELSE IF after \in {"start", "dump"} /\ Has(m.payload, "app") THEN "app_scp"
    ELSE IF after \in {"start", "dump", "app"} /\ Has(m.payload, "done") THEN "done"
    ELSE "idle"

\* the handler has returned (line 100)
returned(stage) == IF stage = "idle" THEN 1 ELSE 0

\* no handler is running: the last one returned, or an exception left it
handler_free(d) == d \in {"idle", "raised"}

\* lines 75-89: the callback is invoked with the oldest undelivered notification
on_message ==
    /\ alive
    /\ callback
    /\ handler_free(dpc)
    /\ inflight # <<>>
    /\ inflight' = Tail(inflight)
    /\ LET stage == next_stage(Head(inflight), "start")
       IN  /\ dpc' = stage
           /\ message' = IF stage = "idle" THEN NoMessage ELSE Head(inflight)
           /\ handled' = handled + returned(stage)
    /\ UNCHANGED <<pc, signal, FILE_DICT, disk, resolver, manager, ssh, ipa_name,
                   bridge, sent, pulls, assembler, detached>>
    /\ UNCHANGED derivation

\* outcomes of the try block of lines 105-121.  "ok": scp.get returned, and
\* chmod was skipped, ran, or raised the CalledProcessError caught at line 118;
\* "error": scp.get raised with nothing written; "error_partial": it raised
\* after part of the data was written
Outcomes == {"ok", "error", "error_partial"}
succeeded(outcome) == outcome = "ok"
on_disk(outcome) == outcome \in {"ok", "error_partial"}

\* line 108: scp.get writes under dest when dest is a directory; when dest
\* does not exist it writes dest itself, a file or (recursive) a directory
\* holding the contents of src; a directory cannot replace a file
can_write(exists, isdir, recursive) == ~(recursive /\ exists /\ ~isdir)

\* a scp_transfer whose handler re-raises a failed transfer
scp_transfer_exit_reraises(stage, outcome) ==
    IF ~succeeded(outcome) THEN "raised"
    ELSE IF stage = "dump_scp" THEN "dump_set" ELSE "app_set"

\* lines 118-121: where control goes after the try block, whatever the outcome
scp_transfer_exit(stage, outcome) == IF stage = "dump_scp" THEN "dump_set" ELSE "app_set"

\* lines 103-121, called from line 90 or line 94
scp_transfer ==
    /\ dpc \in {"dump_scp", "app_scp"}
    /\ pc # "exit"
    /\ LET src == IF dpc = "dump_scp" THEN message.payload.dump ELSE message.payload.app
       IN  \E outcome \in Outcomes :
             /\ pulls' = Append(pulls, [src |-> src, recursive |-> dpc = "app_scp",
                                        outcome |-> outcome])
             /\ on_disk(outcome) => can_write(payload_exists, payload_isdir, dpc = "app_scp")
             /\ IF on_disk(outcome)
                THEN /\ staging' = IF payload_isdir THEN staging \cup {basename(src)}
                                   ELSE staging
                     /\ payload_isdir' = (payload_isdir \/ (~payload_exists /\ dpc = "app_scp"))
                     /\ payload_exists' = TRUE
                ELSE UNCHANGED disk
             /\ dpc' = scp_transfer_exit(dpc, outcome)
    /\ UNCHANGED <<pc, signal, FILE_DICT, resolver, manager, ssh, ipa_name, bridge,
                   sent, inflight, message, handled, assembler, detached>>
    /\ UNCHANGED derivation

\* line 91
set_dump(d, payload) == DictSet(d, basename(payload.dump), extract_path(payload.path))

\* a registration with key and value exchanged
set_app_reversed(d, payload) == DictSet(d, basename(payload.app), AppKey)

\* line 95
set_app(d, payload) == DictSet(d, AppKey, basename(payload.app))

\* lines 91 and 95: the assignment that follows the call of scp_transfer
register ==
    /\ dpc \in {"dump_set", "app_set"}
    /\ pc # "exit"
    /\ FILE_DICT' = IF dpc = "dump_set" THEN set_dump(FILE_DICT, message.payload)
                    ELSE set_app(FILE_DICT, message.payload)
    /\ LET stage == next_stage(message, IF dpc = "dump_set" THEN "dump" ELSE "app")
       IN  /\ dpc' = stage
           /\ message' = IF stage = "idle" THEN NoMessage ELSE message
           /\ handled' = handled + returned(stage)
    /\ UNCHANGED <<pc, signal, disk, resolver, manager, ssh, ipa_name, bridge,
                   sent, inflight, pulls, assembler, detached>>
    /\ UNCHANGED derivation

\* a handler that ignores the done key
done_without_set ==
    /\ dpc = "done"
    /\ pc # "exit"
    /\ dpc' = "idle"
    /\ message' = NoMessage
    /\ handled' = handled + 1
    /\ UNCHANGED <<pc, signal, FILE_DICT, disk, resolver, manager, ssh, ipa_name,
                   bridge, sent, inflight, pulls, assembler, detached>>
    /\ UNCHANGED derivation

\* lines 97-100
done ==
    /\ dpc = "done"
    /\ pc # "exit"
    /\ Set("done")
    /\ dpc' = "idle"
    /\ message' = NoMessage
    /\ handled' = handled + 1
    /\ UNCHANGED <<pc, FILE_DICT, disk, resolver, manager, ssh, ipa_name, bridge,
                   sent, inflight, pulls, assembler, detached>>
    /\ UNCHANGED derivation

\* ------------------------------------------------------------ generate_ipa
\* a lookup that falls back to a default instead of raising KeyError
generate_ipa_with_default ==
    /\ pc = "generate_ipa"
    /\ app_name' = IF DictHas(FILE_DICT, AppKey) THEN DictGet(FILE_DICT, AppKey) ELSE <<>>
    /\ it' = 1
    /\ size' = Len(FILE_DICT)
    /\ pc' = "items"
    /\ UNCHANGED <<signal, FILE_DICT, disk, resolver, manager, ssh, ipa_name,
                   bridge, delivery, error, ipa, detached>>
    /\ UNCHANGED derivation

\* lines 59-61: the sentinel lookup and the creation of the items iterator
generate_ipa ==
    /\ pc = "generate_ipa"
    /\ IF DictHas(FILE_DICT, AppKey)
       THEN /\ app_name' = DictGet(FILE_DICT, AppKey)
            /\ it' = 1
            /\ size' = Len(FILE_DICT)
            /\ pc' = "items"
            /\ UNCHANGED error
       ELSE /\ error' = "KeyError"
            /\ pc' = "except"
            /\ UNCHANGED <<app_name, it, size>>
    /\ UNCHANGED <<signal, FILE_DICT, disk, resolver, manager, ssh, ipa_name,
                   bridge, delivery, ipa, detached>>
    /\ UNCHANGED derivation

\* line 65: shutil.move needs the staged file and the bundle directory
can_move(files, key, root) == key \in files /\ root \in files

\* lines 61-65: one step of the loop; the iterator raises RuntimeError when
\* the dict changed size since the iterator was created
items ==
    /\ pc = "items"
    /\ IF Len(FILE_DICT) # size
       THEN /\ error' = "RuntimeError"
            /\ pc' = "except"
            /\ UNCHANGED <<it, disk>>
       ELSE IF it > Len(FILE_DICT)
       THEN /\ pc' = "zip"
            /\ UNCHANGED <<it, error, disk>>
       ELSE LET key == FILE_DICT[it].key
                value == FILE_DICT[it].value
            IN  IF key = AppKey
                THEN /\ it' = it + 1
                     /\ pc' = pc
                     /\ UNCHANGED <<error, disk>>
                ELSE IF can_move(staging, key, app_name)
                THEN /\ staging' = (staging \ {key}) \cup {join(app_name, value)}
                     /\ it' = it + 1
                     /\ pc' = pc
                     /\ UNCHANGED <<error, payload_exists, payload_isdir>>
                ELSE /\ error' = "move"
                     /\ pc' = "except"
                     /\ UNCHANGED <<it, disk>>
    /\ UNCHANGED <<signal, FILE_DICT, resolver, manager, ssh, ipa_name, bridge,
                   delivery, app_name, size, ipa, detached>>
    /\ UNCHANGED derivation

\* lines 67-68
zip ==
    /\ pc = "zip"
    /\ \/ /\ payload_exists
          /\ ipa' = ipa_name
          /\ pc' = "rmtree"
          /\ UNCHANGED error
       \/ /\ error' = "zip"
          /\ pc' = "except"
          /\ UNCHANGED ipa
    /\ UNCHANGED <<signal, FILE_DICT, disk, resolver, manager, ssh, ipa_name,
                   bridge, delivery, app_name, it, size, detached>>
    /\ UNCHANGED derivation

\* line 69
rmtree ==
    /\ pc = "rmtree"
    /\ \/ /\ can_rmtree(payload_exists, payload_isdir)
          /\ payload_exists' = FALSE
          /\ payload_isdir' = FALSE
          /\ staging' = {}
          /\ pc' = "detach"
          /\ UNCHANGED error
       \/ /\ error' = "rmtree"
          /\ pc' = "except"
          /\ UNCHANGED disk
    /\ UNCHANGED <<signal, FILE_DICT, resolver, manager, ssh, ipa_name, bridge,
                   delivery, app_name, it, size, ipa, detached>>
    /\ UNCHANGED derivation

\* a handler that lets the exception go on to line 259
except_reraises ==
    /\ pc = "except"
    /\ pc' = "teardown"
    /\ UNCHANGED <<signal, FILE_DICT, disk, resolver, manager, ssh, ipa_name, bridge,
                   delivery, assembler, detached>>
    /\ UNCHANGED derivation

\* lines 70-72
except ==
    /\ pc = "except"
    /\ Set("generate_ipa")
    /\ pc' = "detach"
    /\ UNCHANGED <<FILE_DICT, disk, resolver, manager, ssh, ipa_name, bridge,
                   delivery, assembler, detached>>
    /\ UNCHANGED derivation

\* lines 170-171; an exception raised by detach reaches line 259
detach ==
    /\ pc = "detach"
    /\ detached' \in BOOLEAN
    /\ pc' = "teardown"
    /\ UNCHANGED <<signal, FILE_DICT, disk, resolver, manager, ssh, ipa_name,
                   bridge, delivery, assembler>>
    /\ UNCHANGED derivation

\* line 263
teardown ==
    /\ pc = "teardown"
    /\ Set("main")
    /\ pc' = "ssh_close"
    /\ UNCHANGED <<FILE_DICT, disk, resolver, manager, ssh, ipa_name, bridge,
                   delivery, assembler, detached>>
    /\ UNCHANGED derivation

\* line 264
ssh_close ==
    /\ pc = "ssh_close"
    /\ ssh' = "closed"
    /\ pc' = "exit"
    /\ UNCHANGED <<signal, FILE_DICT, disk, resolver, manager, ipa_name, bridge,
                   delivery, assembler, detached>>
    /\ UNCHANGED derivation

\* ---------------------------------------------------------- specification
Main ==
    \/ get_usb_iphone \/ get_usb_iphone_poll \/ FINISHED_wait
    \/ ssh_connect \/ create_dir
    \/ get_applications \/ scan \/ try \/ spawn \/ attach \/ resume
    \/ open_target_app_return
    \/ create_script \/ script_on \/ script_load \/ script_post
    \/ generate_ipa \/ items \/ zip \/ rmtree \/ except \/ detach
    \/ teardown \/ ssh_close

Delivery == on_message \/ scp_transfer \/ register \/ done

Next ==
    \/ get_usb_iphone \/ get_usb_iphone_poll \/ FINISHED_wait \/ devices_changed
    \/ ssh_connect \/ create_dir
    \/ get_applications \/ scan \/ try \/ spawn \/ attach \/ resume
    \/ open_target_app_return
    \/ create_script \/ script_on \/ script_load \/ script_post
    \/ agent_send \/ on_message \/ scp_transfer \/ register \/ done
    \/ generate_ipa \/ items \/ zip \/ rmtree \/ except \/ detach
    \/ teardown \/ ssh_close

Spec == Init /\ [][Next]_vars

\* ------------------------------------------------- extract_path on its own
MaxSegments == 4        \* pieces a device path is put together from
Segments == {<<"x">>, <<"/">>, <<".">>, <<".", "a", "p", "p">>, AppMarker}

\* the concatenation of a sequence of sequences
RECURSIVE Flatten(_)
Flatten(ss) == IF ss = <<>> THEN <<>> ELSE Head(ss) \o Flatten(Tail(ss))

Paths == {Flatten(ss) : ss \in SeqsUpTo(Segments, MaxSegments)}

program == <<pc, signal, FILE_DICT, disk, resolver, manager, ssh, ipa_name, bridge,
             delivery, assembler, detached>>

InitPath ==
    /\ Program
    /\ ~payload_exists
    /\ device_manager = <<>>
    /\ device_path \in Paths
    /\ relative = <<>>
    /\ again = <<>>
    /\ xpc = "call"

\* lines 135-138, called with device_path
extract_path_call ==
    /\ xpc = "call"
    /\ relative' = extract_path(device_path)
    /\ xpc' = "returned"
    /\ UNCHANGED <<program, device_path, again>>

\* lines 135-138, called with the value of the first call
extract_path_again ==
    /\ xpc = "returned"
    /\ again' = extract_path(relative)
    /\ xpc' = "again"
    /\ UNCHANGED <<program, device_path, relative>>

NextPath == extract_path_call \/ extract_path_again

SpecPath == InitPath /\ [][NextPath]_vars

\* both threads keep running while they have a step to take; the agent and
\* the device bus are under no obligation
FairSpec == Spec /\ WF_vars(Main) /\ WF_vars(Delivery)

\* ------------------------------------------------- notions used by the claims
IsFileReady(m) == Has(m, "payload") /\ (Has(m.payload, "dump") \/ Has(m.payload, "app"))
IsDone(m) == Has(m, "payload") /\ Has(m.payload, "done")

\* file-ready notifications followed by exactly one done
RunShape(s) ==
    /\ Len(s) >= 1
    /\ IsDone(s[Len(s)])
    /\ \A i \in 1..(Len(s) - 1) : IsFileReady(s[i]) /\ ~IsDone(s[i])

\* no file-ready notification is emitted after a done
DoneLast(s) == \A i, j \in 1..Len(s) : (i < j /\ IsDone(s[i])) => ~IsFileReady(s[j])

\* notifications the callback has been invoked with
delivered == SubSeq(sent, 1, Len(sent) - Len(inflight))

\* every notification emitted has been handled and the handler has returned
AllHandled == inflight = <<>> /\ dpc = "idle"

\* the remote paths a sequence of notifications asks to pull, in order
RECURSIVE Srcs(_)
Srcs(s) ==
    IF s = <<>> THEN <<>>
    ELSE LET m == Head(s)
             d == IF Has(m, "payload") /\ Has(m.payload, "dump")
                  THEN <<m.payload.dump>> ELSE <<>>
             a == IF Has(m, "payload") /\ Has(m.payload, "app")
                  THEN <<m.payload.app>> ELSE <<>>
         IN  d \o a \o Srcs(Tail(s))

Pulled == [i \in 1..Len(pulls) |-> pulls[i].src]
IsPrefix(a, b) == Len(a) <= Len(b) /\ SubSeq(b, 1, Len(a)) = a

\* the table key a pull stands for
KeyOf(p) == IF p.recursive THEN AppKey ELSE basename(p.src)
OkKeys == {KeyOf(pulls[i]) : i \in {j \in 1..Len(pulls) : succeeded(pulls[j].outcome)}}
AllKeys == {KeyOf(pulls[i]) : i \in 1..Len(pulls)}

AfterAssembly == pc \in {"detach", "teardown", "ssh_close", "exit"}
Reading == pc \in {"generate_ipa", "items", "zip", "rmtree"}

\* ------------------------------------------------------------------ claims
\* C1: after file-ready notifications followed by exactly one done, FILE_DICT
\* holds exactly one entry per file whose pull succeeded, none for a file
\* whose pull raised, and the sentinel key iff a bundle pull succeeded.
C1_TableHoldsSucceededPullsOnly ==
    (RunShape(sent) /\ AllHandled) =>
        /\ DictKeys(FILE_DICT) = OkKeys
        /\ Len(FILE_DICT) = Cardinality(OkKeys)

\* C2: a pull that raises does not abort the run: no exception leaves the
\* handler, each file-ready key is pulled once and never again, every
\* notification delivered is pulled and registered whatever failed before it,
\* and a handled done sets FINISHED, which lets the waiting thread go on.
C2_FailedPullDoesNotAbort ==
    /\ dpc # "raised"
    /\ IsPrefix(Pulled, Srcs(delivered))
    /\ dpc = "idle" =>
          /\ Pulled = Srcs(delivered)
          /\ DictKeys(FILE_DICT) = AllKeys
          /\ (\E i \in 1..Len(delivered) : IsDone(delivered[i])) => FINISHED
    /\ (pc = "start_dump_wait" /\ FINISHED) => ENABLED FINISHED_wait

\* a pull raised, a later notification was still pulled and registered, done
\* set the signal and the controlling thread went through assembly
C2_Witness ==
    /\ \E i, j \in 1..Len(pulls) :
          /\ i < j
          /\ ~succeeded(pulls[i].outcome)
          /\ DictHas(FILE_DICT, KeyOf(pulls[j]))
    /\ "done" \in setters
    /\ AfterAssembly

\* C3: when the bundle pull succeeded and the pull of a binary file raised,
\* assembly does not fail on a move because of that file.
C3_LeafFailureDoesNotFailAssembly ==
    ( /\ AfterAssembly
      /\ RunShape(sent)
      /\ \E i \in 1..Len(pulls) : pulls[i].recursive
      /\ \A i \in 1..Len(pulls) : pulls[i].recursive => succeeded(pulls[i].outcome)
      /\ \E i \in 1..Len(pulls) : ~pulls[i].recursive /\ ~succeeded(pulls[i].outcome) )
    => error # "move"

\* a write by the delivery context to FILE_DICT or to the staging directory
DeliveryWrite ==
    \/ dpc \in {"dump_set", "app_set"} /\ dpc' # dpc
    \/ Len(pulls') > Len(pulls) /\ on_disk(pulls'[Len(pulls')].outcome)

\* C4 as stated: assembly starts only with FINISHED set, and the delivery
\* context writes nothing while the assembler reads, for every notification
\* sequence.
C4_NoWriteWhileReading ==
    /\ [](Reading => FINISHED)
    /\ [][Reading => ~DeliveryWrite]_vars

\* C4 amended: the same, for the notification sequences in which no
\* file-ready notification follows a done.
C4_NoWriteWhileReadingWhenDoneLast ==
    /\ [](Reading => FINISHED)
    /\ [][(Reading /\ DoneLast(sent')) => ~DeliveryWrite]_vars

\* the assembler is iterating over a table of two entries built by handlers
\* that all returned before done was handled
C4_Witness ==
    /\ pc = "items"
    /\ it > 1
    /\ Len(FILE_DICT) >= 2
    /\ RunShape(sent)
    /\ AllHandled

\* C5: FINISHED, once set, stays set; a further set() from another code path
\* leaves it set.
C5_SignalMonotonic ==
    [][(FINISHED => FINISHED') /\ ((FINISHED /\ setters' # setters) => FINISHED')]_vars

\* the signal was set from the done notification, the failure handler of
\* generate_ipa and the teardown of main, and is set
C5_Witness == FINISHED /\ setters = {"done", "generate_ipa", "main"}

\* the resolver has not returned
Resolving == pc \in {"main", "get_usb_iphone", "get_usb_iphone_wait"}

\* a device of the required kind is attached
Present == device_type # None /\ matching(device_manager, device_type) # <<>>

\* C6: if a device of the required kind is present from some time on while
\* the resolver runs, also after a poll that found none, the resolver
\* eventually returns.
C6_ResolutionReturnsOncePresent == <>[](Resolving => Present) => <>(~Resolving)

\* C7: the device returned is of the required kind and is the first device
\* of that kind in the enumeration.
C7_ReturnsFirstOfRequiredKind ==
    pc = "ssh_connect" =>
        /\ device.type = device_type
        /\ \E i \in 1..Len(device_manager) :
              /\ device_manager[i] = device
              /\ \A j \in 1..(i - 1) : device_manager[j].type # device_type

\* the enumeration lists a device of another kind first and two of the
\* required kind after it, and the resolver returned the second entry
C7_Witness ==
    /\ pc = "ssh_connect"
    /\ Len(device_manager) >= 2
    /\ device_manager[1].type # device_type
    /\ device = device_manager[2]

\* the positions of the descriptors that match the target
Matching == {i \in 1..Len(apps) : matches(Target, apps[i])}
SelectedRunning == Matching # {} /\ apps[Max(Matching)].pid # 0

C9_LastMatchWins ==
    pc \in {"try", "spawn", "attach", "attach_spawned", "resume", "return"} =>
        IF Matching = {}
        THEN display_name = "" /\ bundle_identifier = "" /\ (pc = "try" => pid = NoPid)
        ELSE LET app == apps[Max(Matching)]
             IN  /\ display_name = app.name
                 /\ bundle_identifier = app.identifier
                 /\ pc \in {"try", "spawn", "attach"} => pid = app.pid

\* two different descriptors match, the first by identifier and the second
\* by name, and the scan has finished
C9_Witness ==
    /\ pc = "try"
    /\ Len(apps) = 2
    /\ apps[1].identifier = Target /\ apps[1].name # Target /\ apps[1].pid # 0
    /\ apps[2].name = Target /\ apps[2].identifier # Target /\ apps[2].pid = 0

\* with a null session nothing of the dump has happened or is happening
NullSessionStops ==
    session = NoSession =>
        /\ script = "none"
        /\ posted = 0
        /\ sent = <<>>
        /\ pc \notin {"start_dump", "script_on", "script_load", "script_post",
                      "start_dump_wait", "generate_ipa", "items", "zip", "rmtree",
                      "except", "detach"}
        /\ error = None
        /\ ipa = None
        /\ ~detached

NoRetry == \A i, j \in 1..Len(calls) : calls[i] = calls[j] => i = j

\* C10 as stated: an exception raised by spawn, attach or resume yields a
\* null session, and a null session stops the run.
C10_AnyExceptionYieldsNullSession ==
    /\ [](pc = "return" /\ caught # None => session = NoSession)
    /\ []NullSessionStops
    /\ []NoRetry
    /\ [][(pc = "return" /\ session = NoSession) => pc' = "teardown"]_vars

\* C10 amended: an exception raised by spawn or attach yields a null session
\* and a null session stops the run; an exception raised by resume is caught
\* too, but the session attach returned is kept and the run proceeds.
C10_SpawnAttachExceptionYieldsNullSession ==
    /\ [](pc = "return" /\ caught \in {"spawn", "attach"} => session = NoSession)
    /\ [](pc = "return" /\ caught = "resume" => session # NoSession)
    /\ []NullSessionStops
    /\ []NoRetry
    /\ [][(pc = "return" /\ session = NoSession) => pc' = "teardown"]_vars

\* attach raised after a successful spawn, the session is null and the run
\* is at teardown without a script
C10_Witness ==
    /\ pc = "teardown"
    /\ calls = <<"spawn", "attach">>
    /\ session = NoSession
    /\ script = "none"

\* C11: a run that obtained a session has released it with session.detach()
\* when the process ends.
C11_SessionReleasedAtExit == (pc = "exit" /\ session # NoSession) => detached

\* C12: an exception raised by any step of assembly lands in the handler of
\* generate_ipa, which sets FINISHED and returns; the run goes on to
\* session.detach() and to teardown.
C12_AssemblyExceptionCaught ==
    /\ [](error # None => (pc = "except" \/ AfterAssembly))
    /\ []((error # None /\ pc # "except") => (FINISHED /\ "generate_ipa" \in setters))
    /\ [][error' # error => (Reading /\ pc' = "except")]_vars
    /\ [][(pc = "except" /\ pc' # pc) => (pc' = "detach" /\ FINISHED')]_vars
    /\ [][(pc = "detach" /\ pc' # pc) => pc' = "teardown"]_vars

\* the compression step raised, the handler set the signal, and the run has
\* detached the session and reached teardown
C12_Witness ==
    /\ error = "zip"
    /\ "generate_ipa" \in setters
    /\ detached
    /\ pc = "teardown"

\* C13: when the sentinel key is absent at line 59, assembly fails at once:
\* nothing is moved, zip is not run, no archive is written and the staging
\* directory is as it was.
C13_MissingSentinelFailsFirst ==
    /\ [][(pc = "generate_ipa" /\ pc' # pc /\ ~DictHas(FILE_DICT, AppKey)) =>
              (pc' = "except" /\ error' = "KeyError" /\ UNCHANGED <<disk, ipa>>)]_vars
    /\ [](error = "KeyError" => (it = 0 /\ ipa = None))
    /\ [][error = "KeyError" => (pc' \notin {"items", "zip", "rmtree"} /\ UNCHANGED ipa)]_vars

\* assembly failed on the lookup while a staged file was on disk, which is
\* still there where the pull put it
C13_Witness ==
    /\ error = "KeyError"
    /\ pc = "detach"
    /\ basename(Dump1) \in staging
    /\ ~DictHas(FILE_DICT, AppKey)

\* the notifications bundle, binary, done with every pull succeeding
BundleBinaryDone(m) ==
    /\ sent = <<MsgApp, m, MsgDone>>
    /\ AllHandled
    /\ \A i \in 1..Len(pulls) : succeeded(pulls[i].outcome)

Entries(d) == {<<d[i].key, d[i].value>> : i \in 1..Len(d)}

C15_StagingRecreatedAndRemovedOnSuccess ==
    /\ []((posted > 0 /\ pulls = <<>>) => (payload_isdir /\ staging = {}))
    /\ [][(pc = "rmtree" /\ pc' # pc) => ~payload_exists']_vars
    /\ [][(Reading /\ pc' = "except" /\ error' # "rmtree") => UNCHANGED disk]_vars
    /\ [][(pc \in {"except", "detach"} /\ pc' # pc) => UNCHANGED disk]_vars

\* ---------------------------------------------------------------- C16
DoneSent == \E i \in 1..Len(sent) : IsDone(sent[i])

\* position of the controlling thread in start_dump and after it
Stage(p) ==
    CASE p = "start_dump_wait" -> 1
      [] p = "generate_ipa" -> 2
      [] p \in {"items", "zip", "rmtree"} -> 3
      [] p = "except" -> 4
      [] p = "detach" -> 5
      [] p = "teardown" -> 6
      [] p = "ssh_close" -> 7
      [] p = "exit" -> 8
      [] OTHER -> 0

\* C16: once the agent has emitted done, the controlling thread leaves
\* FINISHED.wait() and reaches teardown; on the way from the wait to teardown
\* it starts generate_ipa once and calls session.detach() once, in that
\* order and never again; it is in generate_ipa or at the detach call only
\* with the signal set.
C16_DoneLeadsToAssemblyDetachTeardown ==
    /\ DoneSent ~> (Stage(pc) >= 6)
    /\ [][(Stage(pc) >= 1 /\ pc' # pc) => Stage(pc') > Stage(pc) \/ (Stage(pc) = 3 /\ Stage(pc') = 3)]_vars
    /\ [][(pc = "start_dump_wait" /\ pc' # pc) => pc' = "generate_ipa"]_vars
    /\ [][(Stage(pc) \in 2..4 /\ pc' # pc) => Stage(pc') \in 3..5]_vars
    /\ [][(pc = "detach" /\ pc' # pc) => pc' = "teardown"]_vars
    /\ [](Stage(pc) \in 2..5 => FINISHED)
    /\ [](pc = "start_dump_wait" => ~detached /\ ipa = None /\ error = None)

\* the run went through the wait, a complete assembly and the detach call
C16_Witness ==
    /\ DoneSent
    /\ pc = "teardown"
    /\ setters = {"done"}
    /\ ipa # None
    /\ error = None
    /\ detached

\* ---------------------------------------------------------------- C17
Pulling == dpc \in {"dump_scp", "app_scp"}
Registering == dpc \in {"dump_set", "app_set"}

\* C17: the handler that is running handles the oldest notification not yet
\* handled, so pulls are made one at a time in the order the agent emitted
\* the files; a table entry is written only by the statement that follows a
\* returned pull, for the file of that pull, in a step that starts no pull.
C17_TransfersSerializedAndOrdered ==
    /\ [](IsPrefix(Pulled, Srcs(sent)))
    /\ [](~handler_free(dpc) => (handled < Len(sent) /\ message = sent[handled + 1]))
    /\ [](Len(delivered) = handled + (IF handler_free(dpc) THEN 0 ELSE 1))
    /\ [][Len(pulls') \in {Len(pulls), Len(pulls) + 1}]_vars
    /\ [][(pulls' # pulls) => (Pulling /\ Registering' /\ UNCHANGED FILE_DICT)]_vars
    /\ [][(Registering' /\ ~Registering) => (Pulling /\ pulls' # pulls)]_vars
    /\ [][(FILE_DICT' # FILE_DICT) =>
              /\ Registering /\ UNCHANGED pulls /\ pulls # <<>>
              /\ LET done_pull == pulls[Len(pulls)]
                 IN  /\ done_pull.src = (IF dpc = "dump_set" THEN message.payload.dump
                                         ELSE message.payload.app)
                     /\ DictKeys(FILE_DICT') = DictKeys(FILE_DICT) \cup {KeyOf(done_pull)}]_vars

\* a second pull is in progress, the first file is registered and a later
\* notification waits for the handler to return
C17_Witness ==
    /\ Pulling
    /\ Len(pulls) = 1
    /\ Len(FILE_DICT) = 1
    /\ inflight # <<>>
    /\ message = sent[2]

\* ---------------------------------------------------------------- C18
\* C18: the callback is registered when the agent is loaded; the dump command
\* is posted only on a loaded script with the callback registered, at most
\* once, and exactly once in a run that waits for the dump; the agent emits
\* nothing while no callback is registered.
C18_CallbackBeforeLoadPostAfterLoadOnce ==
    /\ [](script = "loaded" => callback)
    /\ [][(script' = "loaded" /\ script # "loaded") => callback]_vars
    /\ [][(posted' # posted) => (script = "loaded" /\ callback /\ posted = 0 /\ posted' = 1)]_vars
    /\ [](Stage(pc) \in 1..5 => posted = 1)
    /\ [](sent # <<>> => callback)
    /\ [][callback => callback']_vars

\* the dump command was posted and the agent has answered
C18_Witness ==
    /\ pc = "start_dump_wait"
    /\ script = "loaded"
    /\ callback
    /\ posted = 1
    /\ sent # <<>>

\* ---------------------------------------------------------------- C19
\* positions at which the marker `.app/` starts in s
Markers(s) == {i \in 1..Len(s) : i + 4 <= Len(s) /\ SubSeq(s, i, i + 4) = AppMarker}

\* C19: for a path with exactly one `.app/` the call returns the text after
\* it, and a second call on that value returns the same value; for a path
\* with no `.app/` the call does not return a value that differs from the
\* path it was given.
C19_ExtractPathIdempotentAndWellDefined ==
    /\ (xpc \in {"returned", "again"} /\ Cardinality(Markers(device_path)) = 1) =>
           LET at == CHOOSE i \in Markers(device_path) : TRUE
           IN  relative = SubSeq(device_path, at + 5, Len(device_path))
    /\ (xpc = "again" /\ Cardinality(Markers(device_path)) = 1) => again = relative
    /\ (xpc \in {"returned", "again"} /\ Markers(device_path) = {}) => relative = device_path

\* ---------------------------------------------------------------- C20
\* C20: once device.spawn has returned a process id, device.resume is
\* eventually called.
C20_SpawnedProcessResumed ==
    (pid = SpawnedPid) ~> (\E i \in 1..Len(calls) : calls[i] = "resume")
====
